---- MODULE Spec2Model ----
(***************************************************************************)
(* Model of import_jira_hierarchy.py: main() reads a CSV of                *)
(* (epic, task, sub-task) summaries, indexes the destination project,      *)
(* creates the missing Epics, then the missing Tasks and Sub-tasks, then    *)
(* links the Tasks to their Epics in batches.  The tracker (Jira) is the   *)
(* variable dest; every tracker call is one step and may fail.             *)
(***************************************************************************)
EXTENDS Integers, Sequences, FiniteSets, TLC

VARIABLES
    rows,        \* load_rows(): the CSV, a sequence of rows
    dry_run,     \* args.dry_run
    batch_size,  \* args.batch_size
    dest0,       \* the destination project before the first run
    dest,        \* the destination project: issue key k is dest[k]
    idx,         \* main(): idx, (lower type, lower summary) -> issue key
    start_at,    \* existing_issues_index(): start_at
    epic_map,    \* main(): epic_map, summary -> handle
    task_map,    \* main(): task_map, summary -> handle
    epic_to_task_summaries, \* main(): ordered dict, as a sequence of entries
    pc,          \* position of main()
    i,           \* index of the row the current loop is at
    e,           \* link loop: index of the entry of epic_to_task_summaries
    off,         \* link loop: the range() offset inside the entry
    calls,       \* tracker calls of the current run, in order
    would,       \* "DRY-RUN: would create" lines of the current run
    warned,      \* rows whose sub-task was skipped with the CSV order warning
    run,         \* 1: first run of the tool, 2: the re-run on the same CSV
    prev,        \* how the first run ended, once the re-run has started
    links1       \* the link calls of the first run, kept for the re-run

vars == <<rows, dry_run, batch_size, dest0, dest, idx, start_at, epic_map,
          task_map, epic_to_task_summaries, pc, i, e, off, calls, would,
          warned, run, prev, links1>>

----------------------------------------------------------------------------
(* Bounds and input sets *)

MaxRows == 3

BatchSizes == {1, 2}

Row(es, ts, ss) == [epic_summary |-> es, task_summary |-> ts, subtask_summary |-> ss]

\* The rows a CSV is made of.  Summaries are sequences of characters; the set
\* holds letter-case variants of epic, task and sub-task summaries, blank
\* and padded fields, one task under two epics and one sub-task summary
\* under two tasks.  A CSV may repeat a row.
RowSet == {
    Row(<<"A">>, <<"A">>, <<"A">>),
    Row(<<"A">>, <<"a">>, <<"a">>),
    Row(<<"A">>, <<"B">>, <<"A">>),
    Row(<<"a">>, << >>, <<"A">>),
    Row(<<"B">>, <<"a", " ">>, << >>),
    Row(<<" ">>, <<"B">>, << >>) }

NewIssue(t, s, p) == [type |-> t, summary |-> s, parent |-> p, epic |-> 0]

\* Destination projects the first run may find.
Destinations == { << >>, <<NewIssue("Story", <<"b">>, 0)>> }

----------------------------------------------------------------------------
(* Strings *)

\* str.lower() on one character
LowerChar(c) == CASE c = "A" -> "a"
                  [] c = "B" -> "b"
                  [] OTHER -> c

\* str.lower()
Lower(s) == [k \in 1..Len(s) |-> LowerChar(s[k])]

\* str.lower() on the issue type names in use
LowerType(t) == CASE t = "Epic" -> "epic"
                  [] t = "Task" -> "task"
                  [] t = "Story" -> "story"
                  [] t = "Sub-task" -> "sub-task"
                  [] OTHER -> t

RECURSIVE LStrip(_)
LStrip(s) == IF s # << >> /\ Head(s) = " " THEN LStrip(Tail(s)) ELSE s

RECURSIVE RStrip(_)
RStrip(s) == IF s # << >> /\ s[Len(s)] = " " THEN RStrip(SubSeq(s, 1, Len(s) - 1)) ELSE s

\* str.strip()
Strip(s) == RStrip(LStrip(s))

----------------------------------------------------------------------------
(* Handles: a jira Issue, or the object() placeholder of a dry run *)

Real(k) == [kind |-> "issue", key |-> k]
Hypothetical == [kind |-> "object", key |-> 0]
None == [kind |-> "none", key |-> 0]

\* (variant: every handle but None passes for an Issue)
IsIssueLoose(h) == h.kind # "none"

\* isinstance(h, Issue)
IsIssue(h) == h.kind = "issue"

\* k in m
Has(m, k) == k \in DOMAIN m

\* m.get(k)
Get(m, k) == IF Has(m, k) THEN m[k] ELSE None

\* m[k] = v
Put(m, k, v) == (k :> v) @@ m

----------------------------------------------------------------------------
(* The tracker *)

Min(a, b) == IF a < b THEN a ELSE b

\* jira.search_issues(jql, startAt, maxResults): the keys of one page
max_results == 100
SearchPage(d, start) == [k \in 1..Min(max_results, IF Len(d) > start THEN Len(d) - start ELSE 0) |-> start + k]

\* parent_details.fields.subtasks: keys of the sub-tasks of issue p, in key order
RECURSIVE SubtasksFrom(_, _, _)
SubtasksFrom(d, p, k) ==
    IF k > Len(d) THEN << >>
    ELSE IF d[k].parent = p THEN <<k>> \o SubtasksFrom(d, p, k + 1)
    ELSE SubtasksFrom(d, p, k + 1)

\* (variant: the sub-tasks of every parent)
SubtasksOfAll(d, p) == SelectSeq([k \in 1..Len(d) |-> k], LAMBDA k : d[k].parent # 0)

Subtasks(d, p) == SubtasksFrom(d, p, 1)

\* jira.add_issues_to_epic(epic_key, batch), when it succeeds
Linked(d, ek, batch) ==
    [k \in 1..Len(d) |-> IF \E j \in 1..Len(batch) : batch[j] = k
                         THEN [d[k] EXCEPT !.epic = ek] ELSE d[k]]

\* One tracker call, as the log keeps it: row is the CSV row that caused it
\* (0 outside the row loops), key the issue key the call names.
Call(op, ok, t, s, k, b, st, r) ==
    [op |-> op, ok |-> ok, type |-> t, summary |-> s, key |-> k,
     batch |-> b, start |-> st, row |-> r]

\* jira.search_issues(jql, startAt=st, ...)
SearchCall(ok, st) == Call("search", ok, "", << >>, 0, << >>, st, 0)
\* jira.create_issue(issuetype=t, summary=s, parent=p)
CreateCall(ok, t, s, p, r) == Call("create", ok, t, s, p, << >>, 0, r)
\* jira.issue(p, fields=["subtasks"])
GetCall(ok, p, r) == Call("get", ok, "", << >>, p, << >>, 0, r)
\* jira.add_issues_to_epic(ek, b), issued for the entry es of the link plan
LinkCall(ok, es, ek, b) == Call("link", ok, "", es, ek, b, 0, 0)

----------------------------------------------------------------------------
(* existing_issues_index and issue_exists *)

\* (variant: the index keeps the summaries as written)
RECURSIVE IndexChunkExact(_, _, _)
IndexChunkExact(ix, d, chunk) ==
    IF chunk = << >> THEN ix
    ELSE LET k == Head(chunk)
             key == <<LowerType(d[k].type), d[k].summary>>
         IN IndexChunkExact(IF Has(ix, key) THEN ix ELSE Put(ix, key, k), d, Tail(chunk))

\* idx.setdefault(key, issue) for every issue of the page, in page order
RECURSIVE IndexChunk(_, _, _)
IndexChunk(ix, d, chunk) ==
    IF chunk = << >> THEN ix
    ELSE LET k == Head(chunk)
             key == <<LowerType(d[k].type), Lower(d[k].summary)>>
         IN IndexChunk(IF Has(ix, key) THEN ix ELSE Put(ix, key, k), d, Tail(chunk))

\* (variant: the lookup keeps the summary as written)
IndexKeyExact(issue_type, summary) == <<LowerType(issue_type), summary>>

\* the key issue_exists looks up
IndexKey(issue_type, summary) == <<LowerType(issue_type), Lower(summary)>>

\* issue_exists(idx, issue_type, summary) is not None
issue_exists(ix, issue_type, summary) == Has(ix, IndexKey(issue_type, summary))

\* the issue it returns
existing_issue(ix, issue_type, summary) == ix[IndexKey(issue_type, summary)]

----------------------------------------------------------------------------
(* main(): helpers of the row loops *)

\* (variant: the creation calls are issued in a dry run too)
WritesSkippedNever(dry) == FALSE

\* "if args.dry_run:" before a creation call: narrate instead of creating
WritesSkipped(dry) == dry

\* "summary in epic_map": the epic was already processed in this run
InEpicMap(em, summary) == Has(em, summary)

\* (variant: the task is resolved again on every row)
InTaskMapNever(tm, task_summary) == FALSE

\* "task_summary not in task_map", negated
InTaskMap(tm, task_summary) == Has(tm, task_summary)

\* (variant: the index is not extended after a creation)
ExtendIndexForgotten(ix, key, k) == ix

\* idx[key] = issue, after a creation
ExtendIndex(ix, key, k) == Put(ix, key, k)

\* (variant: the entry keeps only the last task summary)
RecordLinkOverwrite(plan, epic_summary, task_summary) ==
    IF \E n \in 1..Len(plan) : plan[n].epic = epic_summary
    THEN [n \in 1..Len(plan) |->
            IF plan[n].epic = epic_summary
            THEN [plan[n] EXCEPT !.tasks = <<task_summary>>]
            ELSE plan[n]]
    ELSE Append(plan, [epic |-> epic_summary, tasks |-> <<task_summary>>])

\* epic_to_task_summaries[epic_summary].append(task_summary) on the defaultdict:
\* a new epic summary gets a new entry at the end
RecordLink(plan, epic_summary, task_summary) ==
    IF \E n \in 1..Len(plan) : plan[n].epic = epic_summary
    THEN [n \in 1..Len(plan) |->
            IF plan[n].epic = epic_summary
            THEN [plan[n] EXCEPT !.tasks = Append(@, task_summary)]
            ELSE plan[n]]
    ELSE Append(plan, [epic |-> epic_summary, tasks |-> <<task_summary>>])

\* parent_issue = task_map.get(task_summary)
ParentIssue(tm, task_summary) == Get(tm, task_summary)

\* (variant: the order check is left out)
ParentMissingNever(parent_issue) == FALSE

\* "parent_issue is None"
ParentMissing(parent_issue) == parent_issue.kind = "none"

\* (variant: the sub-task is created without its parent)
ParentKeyNone(parent_issue) == 0

\* parent={"key": parent_issue.key} if isinstance(parent_issue, Issue) else None
ParentKey(parent_issue) == IF IsIssue(parent_issue) THEN parent_issue.key ELSE 0

\* (variant: the sub-task summaries are compared as written)
ExistingSubExact(d, p, sub_summary) ==
    \E n \in 1..Len(Subtasks(d, p)) : d[Subtasks(d, p)[n]].summary = sub_summary

\* the loop over parent_details.fields.subtasks finds an existing_sub
ExistingSub(d, p, sub_summary) ==
    \E n \in 1..Len(Subtasks(d, p)) :
        Lower(d[Subtasks(d, p)[n]].summary) = Lower(sub_summary)

\* (variant: one pass, the epic of a row right before its task and sub-task)
FlowOnePass(p, k, n, dry) ==
    IF p = "epics"
    THEN [pc |-> "tasks", i |-> k]
    ELSE (IF k < n THEN [pc |-> "epics", i |-> k + 1]
          ELSE IF dry THEN [pc |-> "done", i |-> k] ELSE [pc |-> "link", i |-> k])

\* The order of the loops of main(): where it goes after row k of n of the
\* first loop ("epics"), after row k of the second loop ("tasks"), and the
\* dry-run return before the third
Flow(p, k, n, dry) ==
    IF p = "epics"
    THEN (IF k < n THEN [pc |-> "epics", i |-> k + 1] ELSE [pc |-> "tasks", i |-> 1])
    ELSE (IF k < n THEN [pc |-> "tasks", i |-> k + 1]
          ELSE IF dry THEN [pc |-> "done", i |-> k] ELSE [pc |-> "link", i |-> k])

----------------------------------------------------------------------------
(* main(): helpers of the link loop *)

\* [task_map[s].key for s in task_summaries if isinstance(task_map.get(s), Issue)]
RECURSIVE TaskKeys(_, _)
TaskKeys(tm, task_summaries) ==
    IF task_summaries = << >> THEN << >>
    ELSE (IF IsIssue(Get(tm, Head(task_summaries)))
          THEN <<tm[Head(task_summaries)].key>> ELSE << >>)
         \o TaskKeys(tm, Tail(task_summaries))

\* (variant: the slice takes its end index too)
BatchInclusive(task_keys, o, b) == SubSeq(task_keys, o + 1, Min(o + b + 1, Len(task_keys)))

\* task_keys[i : i + batch_size]
Batch(task_keys, o, b) == SubSeq(task_keys, o + 1, Min(o + b, Len(task_keys)))

\* (variant: the exception of a creation call is swallowed and the loop goes on)
OnCreateErrorSwallowed(next_pc) == next_pc

\* jira.create_issue() of an epic or a task is not in a try block: its
\* exception leaves main()
OnCreateError(next_pc) == "aborted"

\* (variant: the failure of a link call is not caught)
OnLinkErrorRaise(next_pc) == "aborted"

\* the except clause of the link call: the loop goes on
OnLinkError(next_pc) == next_pc

----------------------------------------------------------------------------
(* Initial states *)

RECURSIVE SeqsUpTo(_, _)
SeqsUpTo(S, n) ==
    IF n = 0 THEN {<< >>}
    ELSE LET shorter == SeqsUpTo(S, n - 1)
         IN shorter \cup {Append(q, x) : q \in shorter, x \in S}

Init ==
    /\ rows \in SeqsUpTo(RowSet, MaxRows) \ {<< >>}
    /\ dry_run \in BOOLEAN
    /\ batch_size \in BatchSizes
    /\ dest0 \in Destinations
    /\ dest = dest0
    /\ idx = << >>
    /\ start_at = 0
    /\ epic_map = << >>
    /\ task_map = << >>
    /\ epic_to_task_summaries = << >>
    /\ pc = "index"
    /\ i = 1
    /\ e = 1
    /\ off = 0
    /\ calls = << >>
    /\ would = << >>
    /\ warned = << >>
    /\ run = 1
    /\ prev = "none"
    /\ links1 = << >>

----------------------------------------------------------------------------
(* A tracker call of the first run may fail; the re-run is the recovery run,
   in which the tracker answers every call *)
MayFail == run = 1

----------------------------------------------------------------------------
(* existing_issues_index(): one search call per step *)

\* (variant: the loop stops at the first page shorter than max_results)
IndexDoneShort(chunk) == Len(chunk) < max_results

\* if not chunk: break
IndexDone(chunk) == chunk = << >>

IndexPage ==
    /\ pc = "index"
    /\ \/ /\ calls' = Append(calls, SearchCall(TRUE, start_at))
          /\ LET chunk == SearchPage(dest, start_at)
             IN IF IndexDone(chunk)
                THEN /\ pc' = "epics"
                     /\ UNCHANGED <<idx, start_at>>
                ELSE /\ idx' = IndexChunk(idx, dest, chunk)
                     /\ start_at' = start_at + max_results
                     /\ pc' = pc
       \/ /\ MayFail
          /\ calls' = Append(calls, SearchCall(FALSE, start_at))
          /\ pc' = "aborted"
          /\ UNCHANGED <<idx, start_at>>
    /\ UNCHANGED <<rows, dry_run, batch_size, dest0, dest, epic_map, task_map,
                   epic_to_task_summaries, i, e, off, would, warned, run, prev, links1>>

----------------------------------------------------------------------------
(* main(), first loop: one row per step *)

EpicRow ==
    /\ pc = "epics"
    /\ LET summary == Strip(rows[i].epic_summary)
           next == Flow("epics", i, Len(rows), dry_run)
           k == Len(dest) + 1
       IN IF summary = << >> \/ InEpicMap(epic_map, summary)
          THEN /\ pc' = next.pc /\ i' = next.i
               /\ UNCHANGED <<dest, idx, epic_map, calls, would>>
          ELSE IF issue_exists(idx, "Epic", summary)
          THEN /\ epic_map' = Put(epic_map, summary, Real(existing_issue(idx, "Epic", summary)))
               /\ pc' = next.pc /\ i' = next.i
               /\ UNCHANGED <<dest, idx, calls, would>>
          ELSE IF WritesSkipped(dry_run)
          THEN /\ would' = Append(would, [type |-> "Epic", summary |-> summary, row |-> i])
               /\ epic_map' = Put(epic_map, summary, Hypothetical)
               /\ pc' = next.pc /\ i' = next.i
               /\ UNCHANGED <<dest, idx, calls>>
          ELSE \/ /\ calls' = Append(calls, CreateCall(TRUE, "Epic", summary, 0, i))
                  /\ dest' = Append(dest, NewIssue("Epic", summary, 0))
                  /\ epic_map' = Put(epic_map, summary, Real(k))
                  /\ idx' = ExtendIndex(idx, <<"epic", Lower(summary)>>, k)
                  /\ pc' = next.pc /\ i' = next.i
                  /\ UNCHANGED would
               \/ /\ MayFail
                  /\ calls' = Append(calls, CreateCall(FALSE, "Epic", summary, 0, i))
                  /\ pc' = OnCreateError(next.pc)
                  /\ i' = IF pc' = "aborted" THEN i ELSE next.i
                  /\ UNCHANGED <<dest, idx, epic_map, would>>
    /\ UNCHANGED <<rows, dry_run, batch_size, dest0, start_at, task_map,
                   epic_to_task_summaries, e, off, warned, run, prev, links1>>

----------------------------------------------------------------------------
(* main(), second loop: the TASK part of a row *)

TaskPart ==
    /\ pc = "tasks"
    /\ LET epic_summary == Strip(rows[i].epic_summary)
           task_summary == Strip(rows[i].task_summary)
           k == Len(dest) + 1
           plan == RecordLink(epic_to_task_summaries, epic_summary, task_summary)
       IN IF task_summary = << >> \/ InTaskMap(task_map, task_summary)
          THEN /\ pc' = "sub"
               /\ UNCHANGED <<dest, idx, task_map, epic_to_task_summaries, calls, would>>
          ELSE IF issue_exists(idx, "Task", task_summary)
          THEN /\ task_map' = Put(task_map, task_summary, Real(existing_issue(idx, "Task", task_summary)))
               /\ epic_to_task_summaries' = plan
               /\ pc' = "sub"
               /\ UNCHANGED <<dest, idx, calls, would>>
          ELSE IF issue_exists(idx, "Story", task_summary)
          THEN /\ task_map' = Put(task_map, task_summary, Real(existing_issue(idx, "Story", task_summary)))
               /\ epic_to_task_summaries' = plan
               /\ pc' = "sub"
               /\ UNCHANGED <<dest, idx, calls, would>>
          ELSE IF WritesSkipped(dry_run)
          THEN /\ would' = Append(would, [type |-> "Task", summary |-> task_summary, row |-> i])
               /\ task_map' = Put(task_map, task_summary, Hypothetical)
               /\ epic_to_task_summaries' = plan
               /\ pc' = "sub"
               /\ UNCHANGED <<dest, idx, calls>>
          ELSE \/ /\ calls' = Append(calls, CreateCall(TRUE, "Task", task_summary, 0, i))
                  /\ dest' = Append(dest, NewIssue("Task", task_summary, 0))
                  /\ task_map' = Put(task_map, task_summary, Real(k))
                  /\ idx' = ExtendIndex(idx, <<LowerType(dest'[k].type), Lower(task_summary)>>, k)
                  /\ epic_to_task_summaries' = plan
                  /\ pc' = "sub"
                  /\ UNCHANGED would
               \/ /\ MayFail
                  /\ calls' = Append(calls, CreateCall(FALSE, "Task", task_summary, 0, i))
                  /\ pc' = OnCreateError("sub")
                  /\ UNCHANGED <<dest, idx, task_map, epic_to_task_summaries, would>>
    /\ UNCHANGED <<rows, dry_run, batch_size, dest0, start_at, epic_map,
                   i, e, off, warned, run, prev, links1>>

----------------------------------------------------------------------------
(* main(), second loop: the SUB-TASK part of a row, up to the decision *)

SubPart ==
    /\ pc = "sub"
    /\ LET task_summary == Strip(rows[i].task_summary)
           sub_summary == Strip(rows[i].subtask_summary)
           parent_issue == ParentIssue(task_map, task_summary)
           next == Flow("tasks", i, Len(rows), dry_run)
           narrate == Append(would, [type |-> "Sub-task", summary |-> sub_summary, row |-> i])
       IN IF sub_summary = << >>
          THEN /\ pc' = next.pc /\ i' = next.i
               /\ UNCHANGED <<calls, would, warned>>
          ELSE IF ParentMissing(parent_issue)
          THEN /\ warned' = Append(warned, i)
               /\ pc' = next.pc /\ i' = next.i
               /\ UNCHANGED <<calls, would>>
          ELSE IF IsIssue(parent_issue)
          THEN \/ /\ calls' = Append(calls, GetCall(TRUE, parent_issue.key, i))
                  /\ IF ExistingSub(dest, parent_issue.key, sub_summary)
                     THEN /\ pc' = next.pc /\ i' = next.i
                          /\ UNCHANGED would
                     ELSE IF WritesSkipped(dry_run)
                     THEN /\ would' = narrate
                          /\ pc' = next.pc /\ i' = next.i
                     ELSE /\ pc' = "subcreate"
                          /\ UNCHANGED <<i, would>>
                  /\ UNCHANGED warned
               \/ /\ MayFail
                  /\ calls' = Append(calls, GetCall(FALSE, parent_issue.key, i))
                  /\ pc' = "aborted"
                  /\ UNCHANGED <<i, would, warned>>
          ELSE IF WritesSkipped(dry_run)
          THEN /\ would' = narrate
               /\ pc' = next.pc /\ i' = next.i
               /\ UNCHANGED <<calls, warned>>
          ELSE /\ pc' = "subcreate"
               /\ UNCHANGED <<i, calls, would, warned>>
    /\ UNCHANGED <<rows, dry_run, batch_size, dest0, dest, idx, start_at, epic_map,
                   task_map, epic_to_task_summaries, e, off, run, prev, links1>>

(* main(), second loop: the creation call of the sub-task *)

SubCreate ==
    /\ pc = "subcreate"
    /\ LET task_summary == Strip(rows[i].task_summary)
           sub_summary == Strip(rows[i].subtask_summary)
           parent_issue == ParentIssue(task_map, task_summary)
           next == Flow("tasks", i, Len(rows), dry_run)
       IN \/ /\ calls' = Append(calls, CreateCall(TRUE, "Sub-task", sub_summary, ParentKey(parent_issue), i))
             /\ dest' = Append(dest, NewIssue("Sub-task", sub_summary, ParentKey(parent_issue)))
             /\ pc' = next.pc /\ i' = next.i
          \/ /\ MayFail
             /\ calls' = Append(calls, CreateCall(FALSE, "Sub-task", sub_summary, ParentKey(parent_issue), i))
             /\ pc' = "aborted"
             /\ UNCHANGED <<dest, i>>
    /\ UNCHANGED <<rows, dry_run, batch_size, dest0, idx, start_at, epic_map, task_map,
                   epic_to_task_summaries, e, off, would, warned, run, prev, links1>>

----------------------------------------------------------------------------
(* main(), third loop: one entry skipped, or one batch linked, per step *)

LinkStep ==
    /\ pc = "link"
    /\ IF e > Len(epic_to_task_summaries)
       THEN /\ pc' = "done"
            /\ UNCHANGED <<dest, e, off, calls>>
       ELSE LET entry == epic_to_task_summaries[e]
                epic_issue == Get(epic_map, entry.epic)
                task_keys == TaskKeys(task_map, entry.tasks)
                batch == Batch(task_keys, off, batch_size)
                \* the range() loop ends with the entry's last batch
                last == off + batch_size >= Len(task_keys)
            IN IF ~IsIssue(epic_issue) \/ off >= Len(task_keys)
               THEN /\ e' = e + 1
                    /\ off' = 0
                    /\ UNCHANGED <<dest, pc, calls>>
               ELSE /\ e' = IF last THEN e + 1 ELSE e
                    /\ off' = IF last THEN 0 ELSE off + batch_size
                    /\ \/ /\ calls' = Append(calls, LinkCall(TRUE, entry.epic, epic_issue.key, batch))
                          /\ dest' = Linked(dest, epic_issue.key, batch)
                          /\ UNCHANGED pc
                       \/ /\ MayFail
                          /\ calls' = Append(calls, LinkCall(FALSE, entry.epic, epic_issue.key, batch))
                          /\ pc' = OnLinkError(pc)
                          /\ UNCHANGED dest
    /\ UNCHANGED <<rows, dry_run, batch_size, dest0, idx, start_at, epic_map, task_map,
                   epic_to_task_summaries, i, would, warned, run, prev, links1>>

----------------------------------------------------------------------------
(* How main() leaves the process *)

\* The exit status: main() returns after the link loop and the interpreter
\* exits with 0; an exception that main() does not catch exits with 1.
\* -1: the run has not stopped.
ExitStatus ==
    IF pc = "done" THEN 0
    ELSE IF pc = "aborted" THEN 1
    ELSE -1

\* What main() prints after the link loop: the loop is its last statement.
FinalReport == << >>

----------------------------------------------------------------------------
(* The operator runs the tool again, live, on the same CSV *)

IsLink(c) == c.op = "link"
IsFailed(c) == ~c.ok

\* how a run that has stopped has ended
Outcome(p, dry, cs) ==
    IF p = "aborted" THEN "aborted"
    ELSE IF dry THEN "dry"
    ELSE IF SelectSeq(cs, IsFailed) # << >> THEN "linkfailed"
    ELSE "clean"

Restart ==
    /\ pc \in {"done", "aborted"}
    /\ run = 1
    /\ run' = 2
    /\ prev' = Outcome(pc, dry_run, calls)
    /\ links1' = SelectSeq(calls, IsLink)
    /\ dry_run' = FALSE
    /\ idx' = << >>
    /\ start_at' = 0
    /\ epic_map' = << >>
    /\ task_map' = << >>
    /\ epic_to_task_summaries' = << >>
    /\ pc' = "index"
    /\ i' = 1
    /\ e' = 1
    /\ off' = 0
    /\ calls' = << >>
    /\ warned' = << >>
    /\ UNCHANGED <<rows, batch_size, dest0, dest, would>>

Next ==
    \/ IndexPage
    \/ EpicRow
    \/ TaskPart
    \/ SubPart
    \/ SubCreate
    \/ LinkStep
    \/ Restart

Spec == Init /\ [][Next]_vars

TypeOK ==
    /\ pc \in {"index", "epics", "tasks", "sub", "subcreate", "link", "done", "aborted"}
    /\ run \in {1, 2}
    /\ i \in 1..Len(rows)

----------------------------------------------------------------------------
(* Vocabulary of the properties *)

IsCreate(c) == c.op = "create"
IsCreateOf(c, t) == c.op = "create" /\ c.type = t
Live == ~dry_run

\* The run has stopped.  The log of a run only grows and every run stops, so
\* a property of all the calls of a run is stated of the log of a stopped run.
RunEnded == pc \in {"done", "aborted"}

\* the positions of the log that hold a creation call of type t for the
\* summary s, compared without letter case
CreationsOf(t, s) ==
    {n \in 1..Len(calls) : IsCreateOf(calls[n], t) /\ Lower(calls[n].summary) = Lower(s)}

\* the fields of row r as main() reads them
EpicOf(r) == Strip(rows[r].epic_summary)
TaskOf(r) == Strip(rows[r].task_summary)
SubOf(r) == Strip(rows[r].subtask_summary)

\* issue k of destination d is a task, under either of the accepted types
TaskLike(d, k) == d[k].type \in {"Task", "Story"}

----------------------------------------------------------------------------
(* C1: after a live run that completed without a failed call, a second live
   run on the same CSV issues no creation call, and when it has completed
   every epic, task and sub-task of the CSV is resolved to an issue of the
   destination. *)
C1_SecondRunCreatesNothing ==
    (run = 2 /\ prev = "clean") =>
        /\ \A n \in 1..Len(calls) : ~IsCreate(calls[n])
        /\ pc = "done" =>
            \A r \in 1..Len(rows) :
                /\ EpicOf(r) # << >> => IsIssue(Get(epic_map, EpicOf(r)))
                /\ TaskOf(r) # << >> => IsIssue(Get(task_map, TaskOf(r)))
                /\ (TaskOf(r) # << >> /\ SubOf(r) # << >>) =>
                        ExistingSub(dest, Get(task_map, TaskOf(r)).key, SubOf(r))

\* a second run has completed after a clean first run that created an epic,
\* a task and a sub-task
C1_Witness ==
    /\ run = 2 /\ prev = "clean" /\ pc = "done"
    /\ \E k \in 1..Len(dest) : k > Len(dest0) /\ dest[k].type = "Epic"
    /\ \E k \in 1..Len(dest) : k > Len(dest0) /\ dest[k].type = "Task"
    /\ \E k \in 1..Len(dest) : k > Len(dest0) /\ dest[k].type = "Sub-task"

----------------------------------------------------------------------------
(* C2: a live run issues no creation call for an epic or a task whose
   (type, lower-cased summary) key is in the index when the call is decided,
   a task counting as present under type Story too; the summary is mapped
   to the indexed issue instead. *)
C2_IndexedIsReused ==
    [][ /\ \A t \in {"Epic", "Task"} :
              (Len(calls') = Len(calls) + 1 /\ IsCreateOf(calls'[Len(calls')], t)) =>
                  LET s == calls'[Len(calls')].summary
                  IN /\ <<LowerType(t), Lower(s)>> \notin DOMAIN idx
                     /\ (t = "Task" => <<"story", Lower(s)>> \notin DOMAIN idx)
        /\ \A s \in DOMAIN epic_map' \ DOMAIN epic_map :
              <<"epic", Lower(s)>> \in DOMAIN idx =>
                  epic_map'[s] = Real(idx[<<"epic", Lower(s)>>])
        /\ \A s \in DOMAIN task_map' \ DOMAIN task_map :
              /\ <<"task", Lower(s)>> \in DOMAIN idx =>
                    task_map'[s] = Real(idx[<<"task", Lower(s)>>])
              /\ (<<"task", Lower(s)>> \notin DOMAIN idx /\ <<"story", Lower(s)>> \in DOMAIN idx) =>
                    task_map'[s] = Real(idx[<<"story", Lower(s)>>])
      ]_vars

\* a live first run has reused a Story whose summary differs in letter case
\* from the task summary of the CSV
C2_Witness ==
    /\ Live /\ run = 1
    /\ \E s \in DOMAIN task_map :
          /\ IsIssue(task_map[s])
          /\ dest[task_map[s].key].type = "Story"
          /\ dest[task_map[s].key].summary # s

----------------------------------------------------------------------------
(* C3: within one live run at most one creation call is issued per type in
   {Epic, Task} and per summary compared without letter case. *)
C3_OneCreationPerIdentity ==
    (Live /\ RunEnded) => \A m, n \in 1..Len(calls) :
                (/\ m < n
                 /\ IsCreate(calls[m]) /\ IsCreate(calls[n])
                 /\ calls[m].type \in {"Epic", "Task"}
                 /\ calls[m].type = calls[n].type)
                => Lower(calls[m].summary) # Lower(calls[n].summary)

\* a live run has completed on a CSV with the task summaries "A" and "a" and
\* the epic summaries "A" and "a", and it created that task and that epic
C3_Witness ==
    /\ Live /\ pc = "done"
    /\ {<<"A">>, <<"a">>} \subseteq DOMAIN task_map
    /\ {<<"A">>, <<"a">>} \subseteq DOMAIN epic_map
    /\ CreationsOf("Task", <<"a">>) # {}
    /\ CreationsOf("Epic", <<"a">>) # {}

----------------------------------------------------------------------------
(* C4: when a task summary stands on N rows of the CSV and no Task or Story
   of the destination has it, a live run issues exactly one task creation
   call for it, the other rows create nothing, and the summary is recorded
   exactly once in the link lists, in the list of the epic of the first row
   that carries it. *)

\* no Task or Story of the destination d has the summary s
AbsentFrom(d, s) ==
    \A k \in 1..Len(d) : TaskLike(d, k) => Lower(d[k].summary) # Lower(s)

\* the rows that carry the task summary s
RowsOfTask(s) == {r \in 1..Len(rows) : TaskOf(r) = s}

\* the first of them
FirstRowOfTask(s) == CHOOSE r \in RowsOfTask(s) : \A q \in RowsOfTask(s) : r <= q

\* the places <<entry, position>> of the link lists that hold s
LinkPlaces(s) ==
    {pl \in (1..Len(epic_to_task_summaries)) \X (1..Len(rows)) :
        /\ pl[2] <= Len(epic_to_task_summaries[pl[1]].tasks)
        /\ epic_to_task_summaries[pl[1]].tasks[pl[2]] = s}

----------------------------------------------------------------------------
(* C5: a live run that completes, also after an interrupted run on the same
   CSV, leaves the destination with the epics, tasks and sub-tasks that one
   uninterrupted run leaves, namely those of the initial destination and
   those of the CSV, and no issue created by the tool duplicates another
   issue. *)

\* the identities of destination d: epics, tasks, and sub-tasks under
\* their parent
EpicsIn(d) == {Lower(d[k].summary) : k \in {j \in 1..Len(d) : d[j].type = "Epic"}}
TasksIn(d) == {Lower(d[k].summary) : k \in {j \in 1..Len(d) : TaskLike(d, j)}}
SubsIn(d) ==
    {<<Lower(d[d[k].parent].summary), Lower(d[k].summary)>> :
        k \in {j \in 1..Len(d) : d[j].type = "Sub-task" /\ d[j].parent # 0}}

\* the identities the CSV asks for
EpicsOfCsv == {Lower(EpicOf(r)) : r \in {q \in 1..Len(rows) : EpicOf(q) # << >>}}
TasksOfCsv == {Lower(TaskOf(r)) : r \in {q \in 1..Len(rows) : TaskOf(q) # << >>}}
SubsOfCsv ==
    {<<Lower(TaskOf(r)), Lower(SubOf(r))>> :
        r \in {q \in 1..Len(rows) : TaskOf(q) # << >> /\ SubOf(q) # << >>}}

\* issues j and k of d have the same identity
SameIdentity(d, j, k) ==
    /\ Lower(d[j].summary) = Lower(d[k].summary)
    /\ d[j].parent = d[k].parent
    /\ \/ d[j].type = d[k].type
       \/ TaskLike(d, j) /\ TaskLike(d, k)

C5_RerunConverges ==
    (Live /\ pc = "done") =>
        /\ EpicsIn(dest) = EpicsIn(dest0) \cup EpicsOfCsv
        /\ TasksIn(dest) = TasksIn(dest0) \cup TasksOfCsv
        /\ SubsIn(dest) = SubsIn(dest0) \cup SubsOfCsv
        /\ \A j, k \in 1..Len(dest) :
              (j < k /\ k > Len(dest0)) => ~SameIdentity(dest, j, k)

\* the re-run has completed after a first run that was interrupted once it
\* had created issues, and the re-run created the others, a sub-task among
\* them
C5_Witness ==
    /\ run = 2 /\ prev = "aborted" /\ pc = "done"
    /\ \E n \in 1..Len(calls) : IsCreateOf(calls[n], "Sub-task")
    /\ Cardinality({n \in 1..Len(calls) : IsCreate(calls[n])}) < Len(dest) - Len(dest0)

----------------------------------------------------------------------------
(* C6: in a live run every epic creation call precedes every task creation
   call, and every creation call precedes every link call. *)
C6_EpicsThenTasksThenLinks ==
    (Live /\ RunEnded) => \A m, n \in 1..Len(calls) :
                /\ (IsCreateOf(calls[m], "Epic") /\ IsCreateOf(calls[n], "Task")) => m < n
                /\ (IsCreate(calls[m]) /\ IsLink(calls[n])) => m < n

\* a live run has completed with two epic creations, two task creations, a
\* sub-task creation and a link call
C6_Witness ==
    /\ Live /\ pc = "done"
    /\ Cardinality({n \in 1..Len(calls) : IsCreateOf(calls[n], "Epic")}) = 2
    /\ Cardinality({n \in 1..Len(calls) : IsCreateOf(calls[n], "Task")}) = 2
    /\ \E n \in 1..Len(calls) : IsCreateOf(calls[n], "Sub-task")
    /\ \E n \in 1..Len(calls) : IsLink(calls[n])

----------------------------------------------------------------------------
(* C7, as claimed: in a live run every task creation call is issued before
   the first sub-task creation call. *)
C7_AllTasksBeforeSubtasks ==
    (Live /\ RunEnded) => \A m, n \in 1..Len(calls) :
                (IsCreateOf(calls[m], "Task") /\ IsCreateOf(calls[n], "Sub-task")) => m < n

(* C7, amended: tasks and sub-tasks are created in one pass over the rows.
   Every sub-task creation call names as parent a Task or Story of the
   destination, every task creation call caused by a row precedes the
   sub-task creation calls caused by that row and by the rows after it, and
   every sub-task creation call caused by a row precedes the task creation
   calls caused by the rows after it. *)
C7_TaskOfRowBeforeItsSubtask ==
    (Live /\ RunEnded) => \A m, n \in 1..Len(calls) :
                IsCreateOf(calls[n], "Sub-task") =>
                    /\ calls[n].key \in 1..Len(dest)
                    /\ TaskLike(dest, calls[n].key)
                    /\ IsCreateOf(calls[m], "Task") =>
                          /\ (calls[m].row <= calls[n].row) => (m < n)
                          /\ (calls[m].row > calls[n].row) => (n < m)

\* a live run has issued a sub-task creation call and, after it, a task
\* creation call
C7_Witness ==
    /\ Live /\ RunEnded
    /\ \E m, n \in 1..Len(calls) :
          /\ m < n
          /\ IsCreateOf(calls[m], "Sub-task") /\ calls[m].ok
          /\ IsCreateOf(calls[n], "Task") /\ calls[n].ok

----------------------------------------------------------------------------
(* C8: when the sub-task part of a row finds the task of the row unresolved
   in the task map, the step issues no call and creates nothing, records the
   warning for the row and goes on to the next row (or to the end of the
   loop); no sub-task creation call is ever issued for such a row. *)
C8_UnresolvedTaskSkipsSubtask ==
    [][ (/\ pc = "sub"
         /\ SubOf(i) # << >>
         /\ ~Has(task_map, TaskOf(i)))
        => /\ calls' = calls
           /\ dest' = dest
           /\ warned' = Append(warned, i)
           /\ \/ pc' = "tasks" /\ i' = i + 1
              \/ pc' \in {"link", "done"} /\ i = Len(rows)
      ]_vars

\* a live run has skipped the sub-task of a row with the warning and has then
\* created an issue for a later row
C8_Witness ==
    /\ Live
    /\ warned # << >>
    /\ \E n \in 1..Len(calls) : IsCreate(calls[n]) /\ calls[n].ok /\ calls[n].row > warned[1]
    /\ \A n \in 1..Len(calls) : IsCreateOf(calls[n], "Sub-task") => calls[n].row # warned[1]

----------------------------------------------------------------------------
(* C9: for every entry of epic_to_task_summaries whose epic is an issue,
   with n task keys and batch size b, a completed link phase has issued
   ceil(n/b) link calls for it, each of at most b keys, all but the last of b
   keys, whose batches concatenated in call order are the task keys of the
   entry in first-seen order; for the other entries it has issued none. *)

\* the positions of the log that hold the link calls of entry en, in order
LinkCallsOf(en) ==
    SelectSeq([n \in 1..Len(calls) |-> n],
              LAMBDA n : IsLink(calls[n]) /\ calls[n].summary = epic_to_task_summaries[en].epic)

RECURSIVE ConcatBatches(_)
ConcatBatches(ns) ==
    IF ns = << >> THEN << >> ELSE calls[Head(ns)].batch \o ConcatBatches(Tail(ns))

\* ceil(n / b)
CeilDiv(n, b) == (n + b - 1) \div b

C9_Batching ==
    (Live /\ pc = "done") =>
        \A en \in 1..Len(epic_to_task_summaries) :
            LET keys == TaskKeys(task_map, epic_to_task_summaries[en].tasks)
                ns == LinkCallsOf(en)
            IN IF IsIssue(Get(epic_map, epic_to_task_summaries[en].epic))
               THEN /\ Len(ns) = CeilDiv(Len(keys), batch_size)
                    /\ \A j \in 1..Len(ns) :
                          /\ Len(calls[ns[j]].batch) <= batch_size
                          /\ j < Len(ns) => Len(calls[ns[j]].batch) = batch_size
                          /\ calls[ns[j]].batch # << >>
                    /\ ConcatBatches(ns) = keys
               ELSE ns = << >>

\* a live run has completed the link phase for an entry of three task keys
\* with batch size 2: two calls, of 2 keys and of 1 key
C9_Witness ==
    /\ Live /\ pc = "done" /\ batch_size = 2
    /\ \E en \in 1..Len(epic_to_task_summaries) :
          /\ Len(TaskKeys(task_map, epic_to_task_summaries[en].tasks)) = 3
          /\ Len(LinkCallsOf(en)) = 2
          /\ Len(calls[LinkCallsOf(en)[1]].batch) = 2
          /\ Len(calls[LinkCallsOf(en)[2]].batch) = 1

----------------------------------------------------------------------------
(* C10: a failed link call never ends the run: the run is never aborted on a
   link call, and after a failed link call the next step of the run is the
   link loop again, which then attempts every later batch of the entry and
   every batch of every later entry. *)

\* the batches the link loop has still to attempt from entry en and offset o
RECURSIVE BatchesFrom(_, _)
BatchesFrom(en, o) ==
    IF en > Len(epic_to_task_summaries) THEN << >>
    ELSE LET entry == epic_to_task_summaries[en]
             keys == TaskKeys(task_map, entry.tasks)
         IN IF ~IsIssue(Get(epic_map, entry.epic)) \/ o >= Len(keys)
            THEN BatchesFrom(en + 1, 0)
            ELSE <<[epic |-> entry.epic, batch |-> SubSeq(keys, o + 1, Min(o + batch_size, Len(keys)))]>>
                 \o BatchesFrom(en, o + batch_size)

\* the link calls of the log, as (entry, batch) pairs, in order
RECURSIVE LinkLog(_)
LinkLog(cs) ==
    IF cs = << >> THEN << >>
    ELSE (IF IsLink(Head(cs)) THEN <<[epic |-> Head(cs).summary, batch |-> Head(cs).batch]>> ELSE << >>)
         \o LinkLog(Tail(cs))

C10_LinkFailureIsolated ==
    /\ pc = "aborted" => ~IsLink(calls[Len(calls)])
    /\ pc = "link" => Live
    /\ (pc \in {"link", "done"} /\ Live) =>
          LinkLog(calls) \o (IF pc = "link" THEN BatchesFrom(e, off) ELSE << >>)
              = BatchesFrom(1, 0)

\* a live run has completed although a link call failed: a later batch of the
\* same entry and a batch of a later entry were attempted after the failure
C10_Witness ==
    /\ Live /\ pc = "done"
    /\ \E m, n, q \in 1..Len(calls) :
          /\ m < n /\ n < q
          /\ IsLink(calls[m]) /\ ~calls[m].ok
          /\ IsLink(calls[n]) /\ calls[n].summary = calls[m].summary
          /\ IsLink(calls[q]) /\ calls[q].summary # calls[m].summary

----------------------------------------------------------------------------
(* C11: when at least one link call of a live run has failed, the run ends
   with an exit status other than that of a run whose link calls all
   succeeded, and with a final report that names every failed link call by
   epic and batch. *)
C11_LinkFailureInOutcome ==
    (Live /\ pc = "done") =>
        \A n \in 1..Len(calls) :
            (IsLink(calls[n]) /\ ~calls[n].ok) =>
                /\ ExitStatus # 0
                /\ \E j \in 1..Len(FinalReport) :
                      /\ FinalReport[j].epic = calls[n].key
                      /\ FinalReport[j].batch = calls[n].batch

----------------------------------------------------------------------------
(* C12: a dry run issues no creation call and no link call, and leaves the
   issues and the epic links of the destination as they were. *)
C12_DryRunWritesNothing ==
    dry_run =>
        /\ \A n \in 1..Len(calls) : ~IsCreate(calls[n]) /\ ~IsLink(calls[n])
        /\ dest = dest0

\* a dry run has completed on a non-empty destination after narrating the
\* creation of an epic, a task and a sub-task
C12_Witness ==
    /\ dry_run /\ pc = "done"
    /\ dest0 # << >>
    /\ \E n \in 1..Len(would) : would[n].type = "Epic"
    /\ \E n \in 1..Len(would) : would[n].type = "Task"
    /\ \E n \in 1..Len(would) : would[n].type = "Sub-task"

----------------------------------------------------------------------------
(* C13, as claimed: a dry run issues no tracker call of any kind. *)
C13_DryRunCallsNothing ==
    dry_run => calls = << >>

(* C13, amended: a dry run reads the destination and only reads it.  It
   builds the index, so its first call is a search call and, once past the
   index, its log holds a search call that succeeded; every other call is a
   get call for an issue of the destination, issued for a row with a
   sub-task whose task was found in the index. *)
C13_DryRunOnlyReads ==
    dry_run =>
        /\ \A n \in 1..Len(calls) :
              \/ calls[n].op = "search"
              \/ /\ calls[n].op = "get"
                 /\ calls[n].key \in 1..Len(dest0)
                 /\ TaskLike(dest0, calls[n].key)
                 /\ SubOf(calls[n].row) # << >>
                 /\ Lower(dest0[calls[n].key].summary) = Lower(TaskOf(calls[n].row))
        /\ pc # "index" => (calls # << >> /\ calls[1].op = "search")
        /\ pc \notin {"index", "aborted"} =>
              \E n \in 1..Len(calls) : calls[n].op = "search" /\ calls[n].ok

\* a dry run has completed with search calls and a get call in its log
C13_Witness ==
    /\ dry_run /\ pc = "done"
    /\ \E n \in 1..Len(calls) : calls[n].op = "search" /\ calls[n].ok
    /\ \E n \in 1..Len(calls) : calls[n].op = "get" /\ calls[n].ok

----------------------------------------------------------------------------
\* the narrations of a dry run for issues of type t
WouldOf(t) == SelectSeq(would, LAMBDA w : w.type = t)

(* C14: after a dry run and a failure-free live run on the same CSV and the
   same destination, the dry run has narrated as many creations of epics, of
   tasks and of sub-tasks as the live run has issued creation calls for
   them. *)
C14_DryRunParity ==
    (run = 2 /\ prev = "dry" /\ pc = "done") =>
        \A t \in {"Epic", "Task", "Sub-task"} :
            Len(WouldOf(t)) = Len(SelectSeq(calls, LAMBDA c : IsCreateOf(c, t)))

----------------------------------------------------------------------------
\* the creation calls of the log that succeeded, in order
Created == SelectSeq(calls, LAMBDA c : IsCreate(c) /\ c.ok)

(* C15: a failed creation call for an epic or a task is the last tracker
   call of its run, which is aborted; the issues created before the failure
   are in the destination, after the issues it held at the start. *)
C15_CreateFailureAborts ==
    /\ \A n \in 1..Len(calls) :
          (IsCreate(calls[n]) /\ calls[n].type \in {"Epic", "Task"} /\ ~calls[n].ok) =>
              (n = Len(calls) /\ pc = "aborted")
    /\ (run = 1 /\ pc = "aborted") =>
          /\ Len(dest) = Len(dest0) + Len(Created)
          /\ \A k \in 1..Len(dest0) :
                dest[k].type = dest0[k].type /\ dest[k].summary = dest0[k].summary
          /\ \A m \in 1..Len(Created) :
                /\ dest[Len(dest0) + m].type = Created[m].type
                /\ dest[Len(dest0) + m].summary = Created[m].summary

\* a task creation has failed after an epic and a task had been created
C15_Witness ==
    /\ pc = "aborted"
    /\ calls # << >>
    /\ IsCreateOf(calls[Len(calls)], "Task") /\ ~calls[Len(calls)].ok
    /\ \E m \in 1..Len(Created) : Created[m].type = "Epic"
    /\ \E m \in 1..Len(Created) : Created[m].type = "Task"
    /\ Len(dest) > Len(dest0)

----------------------------------------------------------------------------
\* the places <<call, position>> of the log where a link call passes key k
PassedAt(k) ==
    {pl \in (1..Len(calls)) \X (1..Len(rows)) :
        /\ IsLink(calls[pl[1]])
        /\ pl[2] <= Len(calls[pl[1]].batch)
        /\ calls[pl[1]].batch[pl[2]] = k}

(* C16: in a completed live run no key of the destination is passed to link
   calls more than once, and no key is passed to link calls of two different
   epics. *)
C16_TaskLinkedOnceUnderOneEpic ==
    (Live /\ pc = "done") =>
        \A k \in 1..Len(dest) :
            /\ Cardinality(PassedAt(k)) <= 1
            /\ \A pl, pm \in PassedAt(k) : calls[pl[1]].key = calls[pm[1]].key

----------------------------------------------------------------------------
\* the rows on which a task summary appears for the first time
FirstRows == {r \in 1..Len(rows) : TaskOf(r) # << >> /\ FirstRowOfTask(TaskOf(r)) = r}

\* a link call of the entry es has passed key k
PassedUnder(es, k) ==
    \E n \in 1..Len(calls) :
        /\ IsLink(calls[n])
        /\ calls[n].summary = es
        /\ \E p \in 1..Len(calls[n].batch) : calls[n].batch[p] = k

(* C17, as claimed: when a live run completes, the key of every task it has
   resolved has been passed to a link call of the epic of the row where the
   task first appears, also when that row's epic summary is blank. *)
C17_EveryTaskReachesLink ==
    (Live /\ pc = "done") =>
        \A r \in FirstRows :
            PassedUnder(EpicOf(r), task_map[TaskOf(r)].key)

(* C17, amended: when a live run completes, the key of every task whose
   first row names an epic has been passed to a link call of that epic with
   the epic's key; for the tasks whose first row has a blank epic summary no
   link call is issued. *)
C17_TaskWithEpicReachesLink ==
    (Live /\ pc = "done") =>
        /\ \A r \in FirstRows :
              EpicOf(r) # << >> =>
                  \E n \in 1..Len(calls) :
                      /\ IsLink(calls[n])
                      /\ calls[n].summary = EpicOf(r)
                      /\ calls[n].key = epic_map[EpicOf(r)].key
                      /\ \E p \in 1..Len(calls[n].batch) :
                            calls[n].batch[p] = task_map[TaskOf(r)].key
        /\ \A n \in 1..Len(calls) : IsLink(calls[n]) => calls[n].summary # << >>

\* a live run has completed with one task passed under its epic and another
\* task, first seen on a row with a blank epic, passed to no link call
C17_Witness ==
    /\ Live /\ pc = "done"
    /\ \E r \in FirstRows :
          /\ EpicOf(r) # << >>
          /\ PassedUnder(EpicOf(r), task_map[TaskOf(r)].key)
    /\ \E r \in FirstRows :
          /\ EpicOf(r) = << >>
          /\ \A n \in 1..Len(calls) :
                IsLink(calls[n]) =>
                    \A p \in 1..Len(calls[n].batch) :
                        calls[n].batch[p] # task_map[TaskOf(r)].key

----------------------------------------------------------------------------
\* the sub-tasks of the destination under parent p whose summary is s, letter
\* case aside
SubsUnder(p, s) ==
    {k \in 1..Len(dest) :
        dest[k].type = "Sub-task" /\ dest[k].parent = p /\ Lower(dest[k].summary) = Lower(s)}

(* C18: a sub-task is created only under a parent that holds no sub-task of
   the same summary, letter case aside: no sub-task created by a run repeats
   the summary of an earlier sub-task of its parent.  When a live run
   completes, every row with a sub-task whose task was resolved has exactly
   one sub-task of its summary under its own task, whatever the other tasks
   hold. *)
C18_SubtaskDedupPerParent ==
    /\ \A k \in (Len(dest0) + 1)..Len(dest) :
          dest[k].type = "Sub-task" =>
              /\ dest[k].parent \in 1..(k - 1)
              /\ \A j \in 1..(k - 1) :
                    ~(/\ dest[j].type = "Sub-task"
                      /\ dest[j].parent = dest[k].parent
                      /\ Lower(dest[j].summary) = Lower(dest[k].summary))
    /\ (Live /\ pc = "done") =>
          \A r \in 1..Len(rows) :
              (SubOf(r) # << >> /\ Has(task_map, TaskOf(r))) =>
                  Cardinality(SubsUnder(task_map[TaskOf(r)].key, SubOf(r))) = 1

\* a live run has completed on a CSV that repeats a (task, sub-task) row and
\* names the same sub-task under another task: the sub-task is under both
C18_Witness ==
    /\ Live /\ run = 1 /\ pc = "done"
    /\ \E r, q \in 1..Len(rows) :
          /\ r < q /\ TaskOf(r) = TaskOf(q) /\ SubOf(r) # << >>
          /\ Lower(SubOf(r)) = Lower(SubOf(q))
    /\ \E n, m \in 1..Len(calls) :
          /\ IsCreateOf(calls[n], "Sub-task") /\ IsCreateOf(calls[m], "Sub-task")
          /\ calls[n].ok /\ calls[m].ok
          /\ calls[n].key # calls[m].key
          /\ Lower(calls[n].summary) = Lower(calls[m].summary)

----------------------------------------------------------------------------
(* C19: a live run that follows a completed, failure-free live run on the
   same CSV issues the same link calls in the same order, with the same epic
   keys and the same batches of task keys, although every one of those
   tasks is linked already. *)
C19_RerunRepeatsLinks ==
    (run = 2 /\ prev = "clean" /\ pc = "done") =>
        SelectSeq(calls, IsLink) = links1

\* the second run has completed after a first run that linked tasks, and has
\* passed a task that was under the epic already
C19_Witness ==
    /\ run = 2 /\ prev = "clean" /\ pc = "done"
    /\ links1 # << >>
    /\ \E n \in 1..Len(calls) :
          /\ IsLink(calls[n]) /\ calls[n].ok
          /\ \E m \in 1..Len(links1) :
                /\ links1[m].ok /\ links1[m].key = calls[n].key
                /\ \E p \in 1..Len(calls[n].batch), q \in 1..Len(links1[m].batch) :
                      calls[n].batch[p] = links1[m].batch[q]

----------------------------------------------------------------------------
\* the states in which the destination is as the index build sees it: the
\* build is running, or has ended and no row has been processed
IndexView == pc = "index" \/ (pc = "epics" /\ i = 1)

\* in those states, the page that search call n of the log was given
PageOf(n) == SearchPage(dest, calls[n].start)

(* C20, as claimed: the index build requests the pages at offsets 0, 100,
   200, ... and issues no search call after a call that returned a page of
   fewer than 100 issues. *)
C20_StopsAtShortPage ==
    IndexView =>
        /\ \A n \in 1..Len(calls) :
              calls[n].op = "search" /\ calls[n].start = (n - 1) * max_results
        /\ \A n, m \in 1..Len(calls) :
              (n < m /\ calls[n].ok) => Len(PageOf(n)) >= max_results

(* C20, amended: the index build requests the pages at offsets 0, 100, 200,
   ... and stops when a page comes back empty: every search call that is
   followed by another one returned at least one issue, and the last call of
   a finished build returned none. *)
C20_StopsAtEmptyPage ==
    IndexView =>
        /\ \A n \in 1..Len(calls) :
              calls[n].op = "search" /\ calls[n].start = (n - 1) * max_results
        /\ \A n \in 1..Len(calls) :
              (n < Len(calls) \/ pc = "index") => (calls[n].ok /\ PageOf(n) # << >>)
        /\ pc = "epics" =>
              /\ calls # << >>
              /\ calls[Len(calls)].ok
              /\ PageOf(Len(calls)) = << >>

\* the build has ended on a destination that holds issues: a short page at
\* offset 0, then an empty page at offset 100
C20_Witness ==
    /\ pc = "epics" /\ i = 1
    /\ Len(calls) = 2
    /\ calls[1].start = 0 /\ calls[1].ok
    /\ PageOf(1) # << >> /\ Len(PageOf(1)) < max_results
    /\ calls[2].start = max_results /\ calls[2].ok
    /\ PageOf(2) = << >>

====
